---- MODULE Spec2Model ----
(***************************************************************************)
(* Model of syft.core.tensor.autodp.ndim_entity_phi:                       *)
(*   - NDimEntityPhiTensor (the bound-tracked private tensor) and its      *)
(*     operator dispatch,                                                  *)
(*   - TensorWrappedNDimEntityPhiTensorPointer (the remote handle),        *)
(*   - NDimEntityPhiTensor.publish.                                        *)
(* numpy arrays are records [shape, data] with the data in row-major       *)
(* order; a lazyrepeatarray is a record [lra, data, shape] whose data is   *)
(* an array of rank 0 (a repeated scalar) or a full array.                 *)
(***************************************************************************)
EXTENDS Integers, Sequences, FiniteSets, TLC

VARIABLES
    op,         \* name of the operator applied to a, "none" before the call
    a,          \* self: the NDimEntityPhiTensor the operator is invoked on
    b,          \* other: the second operand of the call
    res,        \* what the call produced: a tensor, a gamma expression, an exception
    ptrs,       \* the remote handles that exist, by position of creation
    outbox,     \* per client, the messages sent with send_immediate_msg_without_reply
    mpcs,       \* the MPCTensor objects constructed so far, in order
    rcall,      \* the last operator invocation on a remote handle and its outcome
    nextUid,    \* the UIDs handed out so far
    ncalls,     \* the number of operator invocations made on remote handles
    pc,         \* position inside NDimEntityPhiTensor.publish
    pargs,      \* the arguments publish was called with
    gamma,      \* the GammaTensor created by publish (and its state mapping)
    ledger,     \* the DataSubjectLedger object handed to publish
    release,    \* the calls made to GammaTensor.publish, in order
    fpt,        \* the tensor's FixedPrecisionTensor: its payload, behind a ShareTensor or not
    returned    \* what the last publish call gave its caller

localVars  == <<op, a, b, res>>
remoteVars == <<ptrs, outbox, mpcs, rcall, nextUid, ncalls>>
pubVars    == <<pc, pargs, gamma, ledger, release, fpt, returned>>
vars == <<op, a, b, res, ptrs, outbox, mpcs, rcall, nextUid, ncalls, pc, pargs, gamma, ledger, release, fpt, returned>>

-----------------------------------------------------------------------------
(* Bounds of the model *)

MaxBound == 1       \* declared bounds and scalar operands range over -MaxBound..MaxBound
MaxCalls == 2       \* operator invocations on remote handles in one behaviour
MaxPublish == 2     \* publish calls on the tensor in one behaviour
MaxNoise == 1       \* the noise added by a release ranges over -MaxNoise..MaxNoise

-----------------------------------------------------------------------------
(* numpy arrays *)

Max2(x, y) == IF x >= y THEN x ELSE y
Min2(x, y) == IF x <= y THEN x ELSE y

RECURSIVE Prod(_)
Prod(s) == IF Len(s) = 0 THEN 1 ELSE Head(s) * Prod(Tail(s))

RECURSIVE SumSeq(_)
SumSeq(s) == IF Len(s) = 0 THEN 0 ELSE Head(s) + SumSeq(Tail(s))

Stride(s, i) == Prod(SubSeq(s, i + 1, Len(s)))

\* multi-index (0-based) of the 0-based flat position k in an array of shape s
Unravel(k, s) == [i \in 1..Len(s) |-> (k \div Stride(s, i)) % s[i]]

Ravel(idx, s) == SumSeq([i \in 1..Len(s) |-> idx[i] * Stride(s, i)])

Arr(s, d) == [shape |-> s, data |-> d]

Scalar0(v) == Arr(<<>>, <<v>>)

Fill(s, v) == Arr(s, [k \in 1..Prod(s) |-> v])

\* shape s padded with leading 1s to rank n
Pad(s, n) == [i \in 1..n |-> IF i <= n - Len(s) THEN 1 ELSE s[i - (n - Len(s))]]

is_broadcastable(s1, s2) ==
    LET n  == Max2(Len(s1), Len(s2))
        p1 == Pad(s1, n)
        p2 == Pad(s2, n)
    IN \A i \in 1..n : p1[i] = p2[i] \/ p1[i] = 1 \/ p2[i] = 1

BShape(s1, s2) ==
    LET n  == Max2(Len(s1), Len(s2))
        p1 == Pad(s1, n)
        p2 == Pad(s2, n)
    IN [i \in 1..n |-> IF p1[i] = 1 THEN p2[i] ELSE p1[i]]

\* element of x seen at multi-index idx of an array of shape s that x broadcasts to
At(x, idx, s) ==
    LET n == Len(s)
        p == Pad(x.shape, n)
        j == [i \in 1..n |-> IF p[i] = 1 THEN 0 ELSE idx[i]]
    IN x.data[Ravel(j, p) + 1]

BroadcastTo(x, s) == Arr(s, [k \in 1..Prod(s) |-> At(x, Unravel(k - 1, s), s)])

Scal(o, x, y) ==
    CASE o = "add" -> x + y
      [] o = "sub" -> x - y
      [] o = "mul" -> x * y
      [] o = "lt"  -> IF x < y THEN 1 ELSE 0
      [] o = "gt"  -> IF x > y THEN 1 ELSE 0
      [] o = "eq"  -> IF x = y THEN 1 ELSE 0
      [] o = "ne"  -> IF x # y THEN 1 ELSE 0
      [] o = "min" -> Min2(x, y)
      [] o = "max" -> Max2(x, y)

\* element-wise binary operator with numpy broadcasting (shapes must be broadcastable)
NpBin(o, x, y) ==
    LET s == BShape(x.shape, y.shape)
    IN Arr(s, [k \in 1..Prod(s) |->
                 Scal(o, At(x, Unravel(k - 1, s), s), At(y, Unravel(k - 1, s), s))])

\* np.minimum.reduce / np.min(axis=0) and np.maximum.reduce / np.max(axis=0) of four arrays
NpMin4(w, x, y, z) == NpBin("min", NpBin("min", w, x), NpBin("min", y, z))
NpMax4(w, x, y, z) == NpBin("max", NpBin("max", w, x), NpBin("max", y, z))

NpSum(x) == Scalar0(SumSeq(x.data))

NpTranspose(x) ==
    LET n == Len(x.shape)
        s == [i \in 1..n |-> x.shape[n + 1 - i]]
    IN Arr(s, [k \in 1..Prod(s) |->
                 LET idx == Unravel(k - 1, s)
                     src == [i \in 1..n |-> idx[n + 1 - i]]
                 IN x.data[Ravel(src, x.shape) + 1]])

\* operands of rank 1 are promoted to a row (left) or a column (right)
MatLeft(x)  == IF Len(x.shape) = 1 THEN Arr(<<1, x.shape[1]>>, x.data) ELSE x
MatRight(y) == IF Len(y.shape) = 1 THEN Arr(<<y.shape[1], 1>>, y.data) ELSE y

MatmulOk(x, y) ==
    /\ Len(x.shape) \in {1, 2}
    /\ Len(y.shape) \in {1, 2}
    /\ MatLeft(x).shape[2] = MatRight(y).shape[1]

NpMatmul(x, y) ==
    LET l == MatLeft(x)
        r == MatRight(y)
        m == l.shape[1]
        k == l.shape[2]
        n == r.shape[2]
        full == [p \in 1..(m * n) |->
                   LET i == (p - 1) \div n
                       j == (p - 1) % n
                   IN SumSeq([q \in 1..k |-> l.data[i * k + q] * r.data[(q - 1) * n + j + 1]])]
        s == (IF Len(x.shape) = 2 THEN <<m>> ELSE <<>>) \o (IF Len(y.shape) = 2 THEN <<n>> ELSE <<>>)
    IN Arr(s, full)

\* np.dot: a rank-0 operand multiplies, otherwise as matmul for rank <= 2
DotOk(x, y) == Len(x.shape) = 0 \/ Len(y.shape) = 0 \/ MatmulOk(x, y)
NpDot(x, y) == IF Len(x.shape) = 0 \/ Len(y.shape) = 0 THEN NpBin("mul", x, y) ELSE NpMatmul(x, y)

\* concatenation along axis 0
ConcatOk(x, y) ==
    /\ Len(x.shape) >= 1
    /\ Len(x.shape) = Len(y.shape)
    /\ Tail(x.shape) = Tail(y.shape)
NpConcat(x, y) == Arr(<<x.shape[1] + y.shape[1]>> \o Tail(x.shape), x.data \o y.data)

-----------------------------------------------------------------------------
(* lazyrepeatarray: the bound envelope *)

\* a new lazyrepeatarray object.  id names the object: "new" for one made
\* during the call, "self.min_vals", "self.max_vals", "other.min_vals",
\* "other.max_vals" for the ones the operands hold
Lra(d, s) == [lra |-> TRUE, data |-> d, shape |-> s, id |-> "new"]

\* lazyrepeatarray.copy(): another object with the same data and shape
LraCopy(l) == Lra(l.data, l.shape)

\* lazyrepeatarray.to_numpy(): the data repeated over the declared shape
to_numpy(l) == IF is_broadcastable(l.data.shape, l.shape) /\ BShape(l.data.shape, l.shape) = l.shape
               THEN BroadcastTo(l.data, l.shape)
               ELSE l.data

\* lazyrepeatarray (+,-,*) a plain scalar or array: the operator is applied to the data
LraSimple(o, l, x) == Lra(NpBin(o, l.data, x), l.shape)

\* lazyrepeatarray (+) lazyrepeatarray
LraBinOk(l, r) == is_broadcastable(l.shape, r.shape) /\ is_broadcastable(l.data.shape, r.data.shape)
LraBin(o, l, r) == Lra(NpBin(o, l.data, r.data), l.shape)

\* LraWithData assigning .data on l itself, without the copy
LraWithData_nocopy(l, d) == [l EXCEPT !.data = d]

\* min_vals = l.copy(); min_vals.data = d
LraWithData(l, d) == [LraCopy(l) EXCEPT !.data = d]

LraMatmul(l, y) == LET r == NpMatmul(to_numpy(l), y) IN Lra(r, r.shape)
LraDot(l, y)    == LET r == NpDot(to_numpy(l), y) IN Lra(r, r.shape)

LraTranspose(l) ==
    LET n == Len(l.shape)
    IN Lra(IF l.data.shape = l.shape THEN NpTranspose(l.data) ELSE l.data,
           [i \in 1..n |-> l.shape[n + 1 - i]])

LraConcat(l, r) == LET c == NpConcat(to_numpy(l), to_numpy(r)) IN Lra(c, c.shape)

\* lazyrepeatarray.sum(axis=None): a plain number
LraSum(l) == NpSum(to_numpy(l))

-----------------------------------------------------------------------------
(* DataSubjectList: the provenance set *)

Dsl(lookup, idx) == [one_hot_lookup |-> lookup, data_subjects_indexed |-> idx]

\* DataSubjectList equality: the subject lists are the same list
EntitiesEq(e1, e2) == e1.one_hot_lookup = e2.one_hot_lookup

\* DataSubjectList.from_objs of a single subject
from_objs(subject) == Dsl(<<subject>>, Scalar0(0))

-----------------------------------------------------------------------------
(* Operands and results *)

IsNdept(o)  == o.kind = "ndept"
IsGamma(o)  == o.kind = "gamma"
IsNdarray(o) == o.kind = "ndarray"
\* is_acceptable_simple_type: int, float, bool or np.ndarray
is_acceptable_simple_type(o) == o.kind \in {"scalar", "ndarray"}

\* the numpy value of a simple operand
Simple(o) == IF o.kind = "scalar" THEN Scalar0(o.v) ELSE o.arr

\* outcomes of a call
\* why: "shape" (operand shapes do not combine), "type" (operand kind not
\* accepted), "unsupported" (NotImplementedError)
Raise(exc, why) == [kind |-> "raise", exc |-> exc, why |-> why]
ReturnValue(v) == [kind |-> "value", v |-> v]
\* the value of (left o right) evaluated by GammaTensor's own operator
GammaOp(o, left, right) == [kind |-> "gamma_op", op |-> o, left |-> left, right |-> right]
\* a returned NDimEntityPhiTensor; entities_of names the DataSubjectList object it holds
ReturnNdept(t, whose) == [kind |-> "ndept", t |-> t, entities_of |-> whose]

\* NDimEntityPhiTensor.__init__: bounds that are not lazyrepeatarrays are
\* wrapped into one with the shape of the child
NDimEntityPhiTensor(child, entities, min_vals, max_vals) ==
    [child     |-> child,
     min_vals  |-> IF "lra" \in DOMAIN min_vals THEN min_vals ELSE Lra(min_vals, child.shape),
     max_vals  |-> IF "lra" \in DOMAIN max_vals THEN max_vals ELSE Lra(max_vals, child.shape),
     entities  |-> entities]

create_gamma(t) ==
    [value         |-> t.child,
     data_subjects |-> t.entities,
     min_val       |-> to_numpy(t.min_vals),
     max_val       |-> to_numpy(t.max_vals),
     fpt_values    |-> t.child]

\* len() of the payload: the first dimension; -1 stands for the TypeError of a rank-0 array
LenOf(x) == IF Len(x.shape) = 0 THEN -1 ELSE x.shape[1]

-----------------------------------------------------------------------------
(* NDimEntityPhiTensor operators.  self is a tensor, other an operand. *)

\* AddNdept without the provenance check: unequal subject lists are added locally
AddNdept_nopromote(self, t) ==
    IF ~is_broadcastable(self.child.shape, t.child.shape) THEN Raise("ValueError", "shape")
    ELSE IF ~LraBinOk(self.min_vals, t.min_vals) \/ ~LraBinOk(self.max_vals, t.max_vals)
         THEN Raise("Exception", "shape")
    ELSE ReturnNdept(NDimEntityPhiTensor(
             NpBin("add", self.child, t.child),
             self.entities,
             LraBin("add", self.min_vals, t.min_vals),
             LraBin("add", self.max_vals, t.max_vals)), "self")

\* __add__, other is an NDimEntityPhiTensor
AddNdept(self, t) ==
    IF ~EntitiesEq(self.entities, t.entities)
    THEN GammaOp("add", create_gamma(self), create_gamma(t))
    ELSE IF ~is_broadcastable(self.child.shape, t.child.shape) THEN Raise("ValueError", "shape")
    ELSE IF ~LraBinOk(self.min_vals, t.min_vals) \/ ~LraBinOk(self.max_vals, t.max_vals)
         THEN Raise("Exception", "shape")
    ELSE ReturnNdept(NDimEntityPhiTensor(
             NpBin("add", self.child, t.child),
             self.entities,
             LraBin("add", self.min_vals, t.min_vals),
             LraBin("add", self.max_vals, t.max_vals)), "self")

\* AddSimple building a new subject list for the result instead of passing self.entities
AddSimple_newentities(self, x) ==
    IF ~is_broadcastable(self.child.shape, x.shape) THEN Raise("ValueError", "shape")
    ELSE ReturnNdept(NDimEntityPhiTensor(
             NpBin("add", self.child, x),
             from_objs(self.entities.one_hot_lookup[1]),
             LraSimple("add", self.min_vals, x),
             LraSimple("add", self.max_vals, x)), "new")

\* __add__, other is a plain scalar or array
AddSimple(self, x) ==
    IF ~is_broadcastable(self.child.shape, x.shape) THEN Raise("ValueError", "shape")
    ELSE IF ~is_broadcastable(self.min_vals.data.shape, x.shape)
            \/ ~is_broadcastable(self.max_vals.data.shape, x.shape)
         THEN Raise("ValueError", "shape")
    ELSE ReturnNdept(NDimEntityPhiTensor(
             NpBin("add", self.child, x),
             self.entities,
             LraSimple("add", self.min_vals, x),
             LraSimple("add", self.max_vals, x)), "self")

\* Add without the GammaTensor branch
Add_nogamma(self, other) ==
    IF IsNdept(other) THEN AddNdept(self, other.t)
    ELSE IF is_acceptable_simple_type(other) THEN AddSimple(self, Simple(other))
    ELSE Raise("NotImplementedError", "unsupported")

\* __add__
Add(self, other) ==
    IF IsNdept(other) THEN AddNdept(self, other.t)
    ELSE IF is_acceptable_simple_type(other) THEN AddSimple(self, Simple(other))
    ELSE IF IsGamma(other) THEN GammaOp("add", create_gamma(self), other.g)
    ELSE Raise("NotImplementedError", "unsupported")

\* the four cross terms of two envelopes under o, reduced with the minimum
\* (lo) and the maximum (hi)
CrossMin(o, smin, smax, omin, omax) ==
    NpMin4(NpBin(o, smin, omin), NpBin(o, smin, omax), NpBin(o, smax, omin), NpBin(o, smax, omax))
CrossMax(o, smin, smax, omin, omax) ==
    NpMax4(NpBin(o, smin, omin), NpBin(o, smin, omax), NpBin(o, smax, omin), NpBin(o, smax, omax))

\* whether the data of the four bounds combine under numpy broadcasting
CrossOk(self, t) ==
    /\ is_broadcastable(self.min_vals.data.shape, t.min_vals.data.shape)
    /\ is_broadcastable(self.min_vals.data.shape, t.max_vals.data.shape)
    /\ is_broadcastable(self.max_vals.data.shape, t.min_vals.data.shape)
    /\ is_broadcastable(self.max_vals.data.shape, t.max_vals.data.shape)
    /\ is_broadcastable(BShape(self.min_vals.data.shape, t.min_vals.data.shape),
                        BShape(self.max_vals.data.shape, t.max_vals.data.shape))
    /\ is_broadcastable(BShape(self.min_vals.data.shape, t.max_vals.data.shape),
                        BShape(self.max_vals.data.shape, t.min_vals.data.shape))

\* __sub__, bounds of tensor - tensor
SubBounds(self, t) ==
    [min_vals |-> LraWithData(self.min_vals,
                     CrossMin("sub", self.min_vals.data, self.max_vals.data, t.min_vals.data, t.max_vals.data)),
     max_vals |-> LraWithData(self.max_vals,
                     CrossMax("sub", self.min_vals.data, self.max_vals.data, t.min_vals.data, t.max_vals.data))]

\* SubNdept promoting on unequal provenance (the commented-out self.gamma - other.gamma)
SubNdept_promote(self, t) ==
    IF ~EntitiesEq(self.entities, t.entities)
    THEN GammaOp("sub", create_gamma(self), create_gamma(t))
    ELSE IF ~is_broadcastable(self.child.shape, t.child.shape) THEN Raise("ValueError", "shape")
    ELSE IF ~CrossOk(self, t) THEN Raise("ValueError", "shape")
    ELSE ReturnNdept(NDimEntityPhiTensor(
             NpBin("sub", self.child, t.child),
             self.entities,
             SubBounds(self, t).min_vals,
             SubBounds(self, t).max_vals), "self")

\* __sub__, other is an NDimEntityPhiTensor
SubNdept(self, t) ==
    IF ~EntitiesEq(self.entities, t.entities) THEN Raise("NotImplementedError", "unsupported")
    ELSE IF ~is_broadcastable(self.child.shape, t.child.shape) THEN Raise("ValueError", "shape")
    ELSE IF ~CrossOk(self, t) THEN Raise("ValueError", "shape")
    ELSE ReturnNdept(NDimEntityPhiTensor(
             NpBin("sub", self.child, t.child),
             self.entities,
             SubBounds(self, t).min_vals,
             SubBounds(self, t).max_vals), "self")

\* __sub__
Sub(self, other) ==
    IF IsNdept(other) THEN SubNdept(self, other.t)
    ELSE IF is_acceptable_simple_type(other) THEN
        IF IsNdarray(other) /\ ~is_broadcastable(other.arr.shape, self.child.shape) THEN Raise("Exception", "shape")
        ELSE IF ~is_broadcastable(self.min_vals.data.shape, Simple(other).shape)
                \/ ~is_broadcastable(self.max_vals.data.shape, Simple(other).shape)
             THEN Raise("ValueError", "shape")
        ELSE ReturnNdept(NDimEntityPhiTensor(
                 NpBin("sub", self.child, Simple(other)),
                 self.entities,
                 LraSimple("sub", self.min_vals, Simple(other)),
                 LraSimple("sub", self.max_vals, Simple(other))), "self")
    ELSE Raise("NotImplementedError", "unsupported")

\* __mul__, bounds of tensor * tensor
MulBounds(self, t) ==
    [min_vals |-> LraWithData(self.min_vals,
                     CrossMin("mul", self.min_vals.data, self.max_vals.data, t.min_vals.data, t.max_vals.data)),
     max_vals |-> LraWithData(self.max_vals,
                     CrossMax("mul", self.min_vals.data, self.max_vals.data, t.min_vals.data, t.max_vals.data))]

\* MulSimpleBounds without the minimum/maximum over the products
MulSimpleBounds_nominmax(self, x) ==
    [min_vals |-> LraWithData(self.min_vals, NpBin("mul", self.min_vals.data, x)),
     max_vals |-> LraWithData(self.max_vals, NpBin("mul", self.max_vals.data, x))]

\* __mul__, bounds of tensor * plain scalar or array
MulSimpleBounds(self, x) ==
    [min_vals |-> LraWithData(self.min_vals, CrossMin("mul", self.min_vals.data, self.max_vals.data, x, x)),
     max_vals |-> LraWithData(self.max_vals, CrossMax("mul", self.min_vals.data, self.max_vals.data, x, x))]

\* __mul__
Mul(self, other) ==
    IF IsNdept(other) THEN
        IF ~EntitiesEq(self.entities, other.t.entities)
        THEN GammaOp("mul", create_gamma(self), create_gamma(other.t))
        ELSE IF ~is_broadcastable(self.child.shape, other.t.child.shape) THEN Raise("ValueError", "shape")
        ELSE IF ~CrossOk(self, other.t) THEN Raise("ValueError", "shape")
        ELSE ReturnNdept(NDimEntityPhiTensor(
                 NpBin("mul", self.child, other.t.child),
                 self.entities,
                 MulBounds(self, other.t).min_vals,
                 MulBounds(self, other.t).max_vals), "self")
    ELSE IF is_acceptable_simple_type(other) THEN
        IF ~is_broadcastable(self.child.shape, Simple(other).shape) THEN Raise("ValueError", "shape")
        ELSE IF ~is_broadcastable(self.min_vals.data.shape, Simple(other).shape)
                \/ ~is_broadcastable(self.max_vals.data.shape, Simple(other).shape)
                \/ ~is_broadcastable(BShape(self.min_vals.data.shape, Simple(other).shape),
                                     BShape(self.max_vals.data.shape, Simple(other).shape))
             THEN Raise("ValueError", "shape")
        ELSE ReturnNdept(NDimEntityPhiTensor(
                 NpBin("mul", self.child, Simple(other)),
                 self.entities,
                 MulSimpleBounds(self, Simple(other)).min_vals,
                 MulSimpleBounds(self, Simple(other)).max_vals), "self")
    ELSE ReturnValue("NotImplementedError")

\* __matmul__
Matmul(self, other) ==
    IF ~(IsNdarray(other) \/ IsNdept(other)) THEN Raise("Exception", "type")
    ELSE IF IsNdarray(other) THEN
        IF ~MatmulOk(self.child, other.arr) THEN Raise("ValueError", "shape")
        ELSE IF ~MatmulOk(to_numpy(self.min_vals), other.arr) \/ ~MatmulOk(to_numpy(self.max_vals), other.arr)
             THEN Raise("ValueError", "shape")
        ELSE ReturnNdept(NDimEntityPhiTensor(
                 NpMatmul(self.child, other.arr),
                 self.entities,
                 LraMatmul(self.min_vals, other.arr),
                 LraMatmul(self.max_vals, other.arr)), "self")
    ELSE
        IF ~EntitiesEq(self.entities, other.t.entities) THEN Raise("NotImplementedError", "unsupported")
        ELSE IF ~MatmulOk(self.child, other.t.child) THEN Raise("ValueError", "shape")
        ELSE IF ~MatmulOk(to_numpy(self.min_vals), to_numpy(other.t.min_vals))
                \/ ~MatmulOk(to_numpy(self.max_vals), to_numpy(other.t.max_vals))
             THEN Raise("ValueError", "shape")
        ELSE ReturnNdept(NDimEntityPhiTensor(
                 NpMatmul(self.child, other.t.child),
                 self.entities,
                 LraMatmul(self.min_vals, to_numpy(other.t.min_vals)),
                 LraMatmul(self.max_vals, to_numpy(other.t.max_vals))), "self")

\* transpose
Transpose(self) ==
    ReturnNdept(NDimEntityPhiTensor(
        NpTranspose(self.child),
        self.entities,
        LraTranspose(self.min_vals),
        LraTranspose(self.max_vals)), "self")

\* concatenate
Concatenate(self, other) ==
    IF IsNdept(other) THEN
        IF ~EntitiesEq(self.entities, other.t.entities)
        THEN GammaOp("add", create_gamma(self), create_gamma(other.t))
        ELSE IF ~ConcatOk(self.child, other.t.child) THEN Raise("ValueError", "shape")
        ELSE IF ~ConcatOk(to_numpy(self.min_vals), to_numpy(other.t.min_vals))
                \/ ~ConcatOk(to_numpy(self.max_vals), to_numpy(other.t.max_vals))
             THEN Raise("ValueError", "shape")
        ELSE ReturnNdept(NDimEntityPhiTensor(
                 NpConcat(self.child, other.t.child),
                 self.entities,
                 LraConcat(self.min_vals, other.t.min_vals),
                 LraConcat(self.max_vals, other.t.max_vals)), "self")
    ELSE IF is_acceptable_simple_type(other) THEN Raise("NotImplementedError", "unsupported")
    ELSE Raise("NotImplementedError", "unsupported")

\* CmpBounds keeping the bounds of self
CmpBounds_keep(self) ==
    [min_vals |-> self.min_vals,
     max_vals |-> self.max_vals]

\* the bounds of a comparison result: min_vals * 0 and (max_vals * 0) + 1
CmpBounds(self) ==
    [min_vals |-> LraSimple("mul", self.min_vals, Scalar0(0)),
     max_vals |-> LraSimple("add", LraSimple("mul", self.max_vals, Scalar0(0)), Scalar0(1))]

\* __lt__
Lt(self, other) ==
    IF IsNdept(other) THEN
        IF ~EntitiesEq(self.entities, other.t.entities) THEN Raise("NotImplementedError", "unsupported")
        ELSE IF LenOf(self.child) = -1 \/ LenOf(other.t.child) = -1 THEN Raise("TypeError", "shape")
        ELSE IF LenOf(self.child) # LenOf(other.t.child) THEN Raise("Exception", "shape")
        ELSE IF ~is_broadcastable(self.child.shape, other.t.child.shape) THEN Raise("ValueError", "shape")
        ELSE ReturnNdept(NDimEntityPhiTensor(
                 NpBin("lt", self.child, other.t.child),
                 self.entities,
                 CmpBounds(self).min_vals,
                 CmpBounds(self).max_vals), "self")
    ELSE IF is_acceptable_simple_type(other) THEN
        IF ~is_broadcastable(self.child.shape, Simple(other).shape) THEN Raise("ValueError", "shape")
        ELSE ReturnNdept(NDimEntityPhiTensor(
                 NpBin("lt", self.child, Simple(other)),
                 self.entities,
                 CmpBounds(self).min_vals,
                 CmpBounds(self).max_vals), "self")
    ELSE ReturnValue("NotImplementedError")

\* __gt__
Gt(self, other) ==
    IF IsNdept(other) THEN
        IF ~EntitiesEq(self.entities, other.t.entities) THEN Raise("NotImplementedError", "unsupported")
        ELSE IF LenOf(self.child) = -1 \/ LenOf(other.t.child) = -1 THEN Raise("TypeError", "shape")
        ELSE IF LenOf(self.child) # LenOf(other.t.child) THEN Raise("Exception", "shape")
        ELSE IF ~is_broadcastable(self.child.shape, other.t.child.shape) THEN Raise("ValueError", "shape")
        ELSE ReturnNdept(NDimEntityPhiTensor(
                 NpBin("gt", self.child, other.t.child),
                 self.entities,
                 CmpBounds(self).min_vals,
                 CmpBounds(self).max_vals), "self")
    ELSE IF is_acceptable_simple_type(other) THEN
        IF ~is_broadcastable(self.child.shape, Simple(other).shape) THEN Raise("ValueError", "shape")
        ELSE ReturnNdept(NDimEntityPhiTensor(
                 NpBin("gt", self.child, Simple(other)),
                 self.entities,
                 CmpBounds(self).min_vals,
                 CmpBounds(self).max_vals), "self")
    ELSE Raise("NotImplementedError", "unsupported")

\* a GammaTensor returned as the value of a call
ReturnGamma(g) == [kind |-> "gamma", g |-> g]

\* Sum returning a tensor for every subject list that is not empty
Sum_anylength(self) ==
    IF Len(self.entities.one_hot_lookup) >= 1
    THEN ReturnNdept(NDimEntityPhiTensor(
             NpSum(self.child),
             from_objs(self.entities.one_hot_lookup[1]),
             LraSum(self.min_vals),
             LraSum(self.max_vals)), "new")
    ELSE ReturnGamma([value         |-> NpSum(self.child),
                      data_subjects |-> self.entities,
                      min_val       |-> LraSum(self.min_vals),
                      max_val       |-> LraSum(self.max_vals)])

\* sum
Sum(self) ==
    IF Len(self.entities.one_hot_lookup) = 1
    THEN ReturnNdept(NDimEntityPhiTensor(
             NpSum(self.child),
             from_objs(self.entities.one_hot_lookup[1]),
             LraSum(self.min_vals),
             LraSum(self.max_vals)), "new")
    ELSE ReturnGamma([value         |-> NpSum(self.child),
                      data_subjects |-> self.entities,
                      min_val       |-> LraSum(self.min_vals),
                      max_val       |-> LraSum(self.max_vals)])

\* __neg__
Neg(self) ==
    ReturnNdept(NDimEntityPhiTensor(
        NpBin("mul", self.child, Scalar0(-1)),
        self.entities,
        LraSimple("mul", self.max_vals, Scalar0(-1)),
        LraSimple("mul", self.min_vals, Scalar0(-1))), "self")

\* dot
Dot(self, other) ==
    IF is_acceptable_simple_type(other) THEN
        IF IsNdarray(other) THEN
            IF ~DotOk(self.child, other.arr) THEN Raise("ValueError", "shape")
            ELSE ReturnNdept(NDimEntityPhiTensor(
                     NpDot(self.child, other.arr),
                     self.entities,
                     NpDot(self.child, other.arr),
                     NpDot(self.child, other.arr)), "self")
        ELSE Raise("Exception", "type")
    ELSE IF IsNdept(other) THEN
        IF Len(self.entities.one_hot_lookup) > 1 \/ Len(other.t.entities.one_hot_lookup) > 1
        THEN Raise("NotImplementedError", "unsupported")
        ELSE IF self.entities.one_hot_lookup = other.t.entities.one_hot_lookup THEN
            IF ~DotOk(self.child, other.t.child) THEN Raise("ValueError", "shape")
            ELSE IF ~DotOk(to_numpy(self.min_vals), to_numpy(other.t.min_vals))
                    \/ ~DotOk(to_numpy(self.max_vals), to_numpy(other.t.max_vals))
                 THEN Raise("ValueError", "shape")
            ELSE ReturnNdept(NDimEntityPhiTensor(
                     NpDot(self.child, other.t.child),
                     self.entities,
                     LraDot(self.min_vals, to_numpy(other.t.min_vals)),
                     LraDot(self.max_vals, to_numpy(other.t.max_vals))), "self")
        ELSE Raise("NotImplementedError", "unsupported")
    ELSE IF IsGamma(other) THEN Raise("NotImplementedError", "unsupported")
    ELSE Raise("NotImplementedError", "unsupported")

\* copy: a new tensor of copies of the four parts
copy(self) == NDimEntityPhiTensor(self.child, self.entities, LraCopy(self.min_vals), LraCopy(self.max_vals))

\* copy_with: the copy, its child replaced
copy_with(self, child) == [copy(self) EXCEPT !.child = child]

\* what the payloads' own == / != gives when it does not resolve the
\* comparison locally: a graph-bearing InitialGammaTensor
InitialGammaTensor == [shape |-> <<>>, data |-> <<>>, symbolic |-> TRUE]

\* the payload engine at a comparison: whether it answers with a graph
\* (symbolic), and what it answers for shapes that do not combine
\* (elementwise: "raise" a ValueError, or the single value "false")
Engines == [symbolic : BOOLEAN, elementwise : {"raise", "false"}]

\* self.child == other / self.child != other of the payloads x and y
ChildCmp(o, x, y) ==
    IF is_broadcastable(x.shape, y.shape) THEN NpBin(o, x, y)
    ELSE Scalar0(IF o = "eq" THEN 0 ELSE 1)

\* __eq__ (o = "eq") and __ne__ (o = "ne"), which differ in the comparison only
EqNe(o, self, other, engine) ==
    IF is_acceptable_simple_type(other) THEN
        IF ~is_broadcastable(self.child.shape, Simple(other).shape) /\ engine.elementwise = "raise"
        THEN Raise("ValueError", "shape")
        ELSE ReturnNdept(copy_with(self, ChildCmp(o, self.child, Simple(other))), "new")
    ELSE IF ~IsNdept(other) THEN Raise("AttributeError", "type")
    ELSE IF LenOf(self.child) = -1 \/ LenOf(other.t.child) = -1 THEN Raise("TypeError", "shape")
    ELSE IF LenOf(self.child) # LenOf(other.t.child) THEN Raise("Exception", "shape")
    ELSE IF engine.symbolic THEN ReturnGamma(create_gamma(copy_with(self, InitialGammaTensor)))
    ELSE IF ~is_broadcastable(self.child.shape, other.t.child.shape) /\ engine.elementwise = "raise"
         THEN Raise("ValueError", "shape")
    ELSE ReturnNdept(copy_with(self, ChildCmp(o, self.child, other.t.child)), "new")

\* __eq__
Eq(self, other, engine) == EqNe("eq", self, other, engine)

\* __ne__
Ne(self, other, engine) == EqNe("ne", self, other, engine)

\* __pos__: a new tensor holding the child, bounds and subject list of self
Pos(self) ==
    ReturnNdept(NDimEntityPhiTensor(self.child, self.entities, self.min_vals, self.max_vals), "self")

-----------------------------------------------------------------------------
(* Inputs of the operator calls *)

Lookups == {<<"alice">>, <<"bob">>, <<"alice", "bob">>}

Shapes == {<<2>>, <<1, 2>>, <<2, 1>>, <<1, 1>>}

\* one subject index per payload element
IndexFor(lookup, s) == Arr(s, [k \in 1..Prod(s) |-> (k - 1) % Len(lookup)])

\* a tensor constructed from raw data and scalar bounds lo, hi
MkTensor(s, lookup, lo, hi, d) ==
    NDimEntityPhiTensor(Arr(s, d), Dsl(lookup, IndexFor(lookup, s)), Scalar0(lo), Scalar0(hi))

Pairs == {p \in (-MaxBound..MaxBound) \X (-MaxBound..MaxBound) : p[1] <= p[2]}

\* every payload within every declared scalar bound pair, one shape, one subject
ValueTensors ==
    UNION {{MkTensor(<<2>>, <<"alice">>, p[1], p[2], d) : d \in [1..2 -> p[1]..p[2]]} : p \in Pairs}

\* every shape and subject list, one payload
ShapedTensors ==
    {MkTensor(s, l, -1, 1, [k \in 1..Prod(s) |-> IF k % 2 = 1 THEN -1 ELSE 1]) : s \in Shapes, l \in Lookups}

\* bounds declared per element
ElementTensors ==
    {NDimEntityPhiTensor(Arr(<<2>>, d), Dsl(<<"alice">>, IndexFor(<<"alice">>, <<2>>)),
                         Lra(Arr(<<2>>, <<-1, 0>>), <<2>>), Lra(Arr(<<2>>, <<0, 1>>), <<2>>))
       : d \in {<<-1, 0>>, <<0, 1>>, <<0, 0>>}}

Tensors == ValueTensors \cup ShapedTensors \cup ElementTensors

PlainArrays ==
    {Arr(<<2>>, <<1, -1>>), Arr(<<2>>, <<-1, -1>>), Arr(<<2, 1>>, <<-1, 1>>),
     Arr(<<1, 2>>, <<1, 1>>), Arr(<<1>>, <<-1>>), Arr(<<3>>, <<1, 0, -1>>)}

NoOperand == [kind |-> "none"]

\* the tensor t held by the caller as self or as other: its two envelopes
\* are the objects named after it
Held(t, who) ==
    [t EXCEPT !.min_vals.id = IF who = "self" THEN "self.min_vals" ELSE "other.min_vals",
              !.max_vals.id = IF who = "self" THEN "self.max_vals" ELSE "other.max_vals"]

Others ==
    {[kind |-> "ndept", t |-> Held(t, "other")] : t \in Tensors}
    \cup {[kind |-> "scalar", v |-> v] : v \in -MaxBound..MaxBound}
    \cup {[kind |-> "ndarray", arr |-> x] : x \in PlainArrays}
    \cup {[kind |-> "gamma", g |-> create_gamma(MkTensor(<<2>>, <<"bob">>, 0, 1, <<0, 1>>))]}
    \cup {[kind |-> "str"]}

-----------------------------------------------------------------------------
(* The operator calls as actions: the call is made once, on the tensor a *)

RemoteIdle ==
    /\ ptrs = <<>>
    /\ outbox = <<>>
    /\ mpcs = <<>>
    /\ rcall = [kind |-> "none"]
    /\ nextUid = 0
    /\ ncalls = 0

PublishIdle ==
    /\ pc = "off"
    /\ pargs = [kind |-> "none"]
    /\ gamma = [kind |-> "none"]
    /\ ledger = <<>>
    /\ release = <<>>
    /\ fpt = [share |-> FALSE, child |-> Scalar0(0)]
    /\ returned = [kind |-> "none"]

Init ==
    /\ op = "none"
    /\ a \in {Held(t, "self") : t \in Tensors}
    /\ b \in Others \cup {NoOperand}
    /\ res = [kind |-> "none"]
    /\ RemoteIdle
    /\ PublishIdle

\* the envelope object l once the call has returned outcome: an object the
\* returned tensor holds is in the state the call left it in
ObjectAfter(l, outcome) ==
    IF outcome.kind # "ndept" \/ l.id = "new" THEN l
    ELSE IF outcome.t.min_vals.id = l.id THEN outcome.t.min_vals
    ELSE IF outcome.t.max_vals.id = l.id THEN outcome.t.max_vals
    ELSE l

TensorAfter(t, outcome) ==
    [t EXCEPT !.min_vals = ObjectAfter(@, outcome), !.max_vals = ObjectAfter(@, outcome)]

OperandAfter(o, outcome) == IF IsNdept(o) THEN [o EXCEPT !.t = TensorAfter(@, outcome)] ELSE o

\* the operator name is called on a with the operand other, which is b for
\* a binary operator and nothing for a unary one
Call(name, other, outcome) ==
    /\ op = "none"
    /\ b = other
    /\ op' = name
    /\ res' = outcome
    /\ a' = TensorAfter(a, outcome)
    /\ b' = OperandAfter(other, outcome)
    /\ UNCHANGED <<remoteVars, pubVars>>

CallAdd         == b # NoOperand /\ Call("add", b, Add(a, b))
CallSub         == b # NoOperand /\ Call("sub", b, Sub(a, b))
CallMul         == b # NoOperand /\ Call("mul", b, Mul(a, b))
CallMatmul      == b # NoOperand /\ Call("matmul", b, Matmul(a, b))
CallConcatenate == b # NoOperand /\ Call("concatenate", b, Concatenate(a, b))
CallLt          == b # NoOperand /\ Call("lt", b, Lt(a, b))
CallGt          == b # NoOperand /\ Call("gt", b, Gt(a, b))
CallDot         == b # NoOperand /\ Call("dot", b, Dot(a, b))
CallTranspose   == Call("transpose", NoOperand, Transpose(a))
CallSum         == Call("sum", NoOperand, Sum(a))
CallNeg         == Call("neg", NoOperand, Neg(a))
CallPos         == Call("pos", NoOperand, Pos(a))
CallEq          == b # NoOperand /\ \E e \in Engines : Call("eq", b, Eq(a, b, e))
CallNe          == b # NoOperand /\ \E e \in Engines : Call("ne", b, Ne(a, b, e))

\* the value the caller writes into an envelope of the result
Written == Scalar0(MaxBound + 1)

\* after the call the caller assigns .data of an envelope of the returned
\* tensor: result.min_vals.data = ... or result.max_vals.data = ...
AssignResult ==
    /\ op \notin {"none", "assigned"}
    /\ res.kind = "ndept"
    /\ \E part \in {"min_vals", "max_vals"} :
         LET r == [res EXCEPT !.t[part].data = Written]
         IN /\ res' = r
            /\ a' = TensorAfter(a, r)
            /\ b' = OperandAfter(b, r)
    /\ op' = "assigned"
    /\ UNCHANGED <<remoteVars, pubVars>>

Next ==
    \/ CallAdd
    \/ CallSub
    \/ CallMul
    \/ CallMatmul
    \/ CallConcatenate
    \/ CallLt
    \/ CallGt
    \/ CallDot
    \/ CallTranspose
    \/ CallSum
    \/ CallNeg
    \/ CallPos
    \/ CallEq
    \/ CallNe

Spec == Init /\ [][Next]_vars

\* The operator calls followed by the caller's assignment to the result, on
\* the tensors of every shape and subject list and with per-element bounds
AssignTensors == ShapedTensors \cup ElementTensors

AssignInit ==
    /\ op = "none"
    /\ a \in {Held(t, "self") : t \in AssignTensors}
    /\ b \in {o \in Others : IsNdept(o) => o.t \in {Held(t, "other") : t \in AssignTensors}}
             \cup {NoOperand}
    /\ res = [kind |-> "none"]
    /\ RemoteIdle
    /\ PublishIdle

AssignNext == Next \/ AssignResult

AssignSpec == AssignInit /\ [][AssignNext]_vars

-----------------------------------------------------------------------------
(* Properties of the operator calls *)

\* the bound data of l seen from the payload position idx of an array of shape s
BoundAt(l, idx, s) == At(l.data, idx, s)

\* the bounds apply to every payload position
BoundsCover(t) ==
    /\ is_broadcastable(t.min_vals.data.shape, t.child.shape)
    /\ BShape(t.min_vals.data.shape, t.child.shape) = t.child.shape
    /\ is_broadcastable(t.max_vals.data.shape, t.child.shape)
    /\ BShape(t.max_vals.data.shape, t.child.shape) = t.child.shape

\* every payload element lies within its [min, max] bounds
InBounds(t) ==
    /\ BoundsCover(t)
    /\ \A k \in 1..Prod(t.child.shape) :
         LET idx == Unravel(k - 1, t.child.shape)
         IN /\ BoundAt(t.min_vals, idx, t.child.shape) <= t.child.data[k]
            /\ t.child.data[k] <= BoundAt(t.max_vals, idx, t.child.shape)

\* min <= max at every position of the envelope
MinLeMax(t) ==
    /\ is_broadcastable(t.min_vals.data.shape, t.max_vals.data.shape)
    /\ LET s == BShape(t.min_vals.data.shape, t.max_vals.data.shape)
       IN \A k \in 1..Prod(s) :
            At(t.min_vals.data, Unravel(k - 1, s), s) <= At(t.max_vals.data, Unravel(k - 1, s), s)

EqualProvenanceTensor(o) == IsNdept(o) /\ EntitiesEq(a.entities, o.t.entities)
UnequalProvenanceTensor(o) == IsNdept(o) /\ ~EntitiesEq(a.entities, o.t.entities)

\* C1: bound soundness of add, sub and mul.  When the payload of a lies within
\* a's bounds and b is an equal-provenance tensor whose payload lies within
\* b's bounds, or a plain scalar, every element of the payload of a+b, a-b and
\* a*b lies within the bounds of the result.
Thm_C1_BoundSoundness ==
    (/\ op \in {"add", "sub", "mul"}
     /\ res.kind = "ndept"
     /\ InBounds(a)
     /\ \/ b.kind = "scalar"
        \/ EqualProvenanceTensor(b) /\ InBounds(b.t))
    => InBounds(res.t)

\* a tensor with a bound below 0 was multiplied by a negative scalar
Wit_C1_NegativeScalarMul ==
    /\ op = "mul"
    /\ b.kind = "scalar"
    /\ b.v < 0
    /\ res.kind = "ndept"
    /\ a.min_vals.data.data[1] < 0
    /\ a.max_vals.data.data[1] > 0
    /\ InBounds(res.t)

\* C2: min <= max is preserved by every operator: from operands whose bounds
\* satisfy min <= max, every returned tensor satisfies min <= max.
Cex_C2_MinLeMax ==
    (/\ op # "none"
     /\ res.kind = "ndept"
     /\ MinLeMax(a)
     /\ IsNdept(b) => MinLeMax(b.t))
    => MinLeMax(res.t)

\* C3: add and mul of two tensors with unequal subject lists yield the gamma
\* operator applied to the promotions of both operands, never a tensor.
Thm_C3_PromotionTrigger ==
    (op \in {"add", "mul"} /\ UnequalProvenanceTensor(b))
    => /\ res = GammaOp(op, create_gamma(a), create_gamma(b.t))
       /\ res.kind # "ndept"

Wit_C3_Promoted ==
    /\ op = "add"
    /\ IsNdept(b)
    /\ a.entities.one_hot_lookup = <<"alice">>
    /\ b.t.entities.one_hot_lookup = <<"bob">>
    /\ res.kind = "gamma_op"

C4Ops == {"add", "sub", "mul", "matmul", "lt", "gt", "concatenate"}

ProvenanceKept ==
    /\ res.kind = "ndept"
    /\ res.t.entities = a.entities
    /\ res.entities_of = "self"

ShapeError == res.kind = "raise" /\ res.why = "shape"

\* C4 as claimed: every one of the binary operators, applied to an
\* equal-provenance tensor or to a plain scalar/array whose shape combines
\* with self, returns a tensor holding self's provenance.
Cex_C4_ProvenanceAllOperators ==
    (/\ op \in C4Ops
     /\ EqualProvenanceTensor(b) \/ is_acceptable_simple_type(b)
     /\ ~ShapeError)
    => ProvenanceKept

\* the operator/operand pairs that raise instead of returning a tensor
C4Raises ==
    \/ op = "concatenate" /\ is_acceptable_simple_type(b)
    \/ op = "matmul" /\ b.kind = "scalar"

\* C4 (amended): provenance preservation.  add, sub, mul, matmul, lt, gt and
\* concatenate on an equal-provenance tensor, and add, sub, mul, lt, gt on a
\* plain scalar/array and matmul on a plain array, return (when the shapes
\* combine) a tensor holding self's provenance object, unchanged; concatenate
\* with a plain operand and matmul with a plain scalar raise.
Thm_C4_ProvenancePreserved ==
    (/\ op \in C4Ops
     /\ EqualProvenanceTensor(b) \/ is_acceptable_simple_type(b)
     /\ ~ShapeError)
    => IF C4Raises THEN res.kind = "raise" ELSE ProvenanceKept

Wit_C4_ProvenanceKept ==
    /\ op = "add"
    /\ b.kind = "scalar"
    /\ Len(a.entities.one_hot_lookup) = 2
    /\ ProvenanceKept

\* C5: sub, lt, gt and matmul of two tensors with unequal provenance, and dot
\* of two tensors with unequal provenance or more than one subject on either
\* side, raise NotImplementedError and return nothing.
Thm_C5_FailFast ==
    /\ (op \in {"sub", "lt", "gt", "matmul"} /\ UnequalProvenanceTensor(b))
         => res = Raise("NotImplementedError", "unsupported")
    /\ (/\ op = "dot"
        /\ IsNdept(b)
        /\ \/ ~EntitiesEq(a.entities, b.t.entities)
           \/ Len(a.entities.one_hot_lookup) > 1
           \/ Len(b.t.entities.one_hot_lookup) > 1)
         => res = Raise("NotImplementedError", "unsupported")

Wit_C5_SubRaised ==
    /\ op = "sub"
    /\ UnequalProvenanceTensor(b)
    /\ res.kind = "raise"

\* every position of the envelope l holds v
AllPositions(l, v) == \A k \in 1..Len(to_numpy(l).data) : to_numpy(l).data[k] = v

\* C6: comparison collapse.  a < b and a > b, for b an equal-provenance tensor
\* of equal length or a plain scalar/array, have min bound 0 and max bound 1
\* at every position.
Thm_C6_ComparisonCollapse ==
    (/\ op \in {"lt", "gt"}
     /\ res.kind = "ndept"
     /\ \/ EqualProvenanceTensor(b) /\ LenOf(a.child) = LenOf(b.t.child)
        \/ is_acceptable_simple_type(b))
    => /\ AllPositions(res.t.min_vals, 0)
       /\ AllPositions(res.t.max_vals, 1)
       /\ Len(to_numpy(res.t.min_vals).data) >= 1

Wit_C6_Collapsed ==
    /\ op = "gt"
    /\ EqualProvenanceTensor(b)
    /\ res.kind = "ndept"
    /\ a.min_vals.data.data[1] = -1
    /\ a.max_vals.data.data[1] = -1
    /\ AllPositions(res.t.max_vals, 1)

-----------------------------------------------------------------------------
(* TensorWrappedNDimEntityPhiTensorPointer: the remote handle *)

None == [none |-> TRUE]
Some(v) == [v |-> v]

Clients == {"c1", "c2"}

\* TensorWrappedNDimEntityPhiTensorPointer.__init__: public_shape and
\* public_dtype default to None; Pointer.__init__ assigns a fresh UID when
\* no id_at_location is given
Pointer(entities, min_vals, max_vals, client, uid) ==
    [entities       |-> entities,
     min_vals       |-> min_vals,
     max_vals       |-> max_vals,
     client         |-> client,
     id_at_location |-> uid,
     tags           |-> <<>>,
     public_shape   |-> None,
     public_dtype   |-> None]

PtrRef(i) == [kind |-> "ptr", i |-> i]
IsPtr(o) == o.kind = "ptr"
IsMpc(o) == o.kind = "mpc"

\* MPCTensor(secret=, shape=, parties=)
MPCTensor(secret, shape, parties) == [kind |-> "mpc", secret |-> secret, shape |-> shape, parties |-> parties]

\* operator.<op_str>(lhs, rhs) evaluated by the MPCTensor operators
MpcOp(op_str, lhs, rhs) == [kind |-> "mpc_op", op |-> op_str, lhs |-> lhs, rhs |-> rhs]

OpStrs == {"add", "sub", "mul", "matmul", "lt", "gt", "ge", "le", "eq", "ne"}

\* pointerize_args_and_kwargs: pointers stay, everything else becomes a
\* pointer (with the UID uid) to a copy at the client
pointerize_args(args, uid) ==
    [k \in 1..Len(args) |->
        IF IsPtr(args[k]) THEN [id |-> ptrs[args[k].i].id_at_location, of |-> "ptr"]
        ELSE [id |-> uid, of |-> args[k].kind]]

\* number of UIDs pointerize_args_and_kwargs takes
UidsFor(args) == IF \E k \in 1..Len(args) : ~IsPtr(args[k]) THEN 1 ELSE 0

\* RunClassMethodAction / GetOrSetPropertyAction
Command(type, path, self, args, dest, address) ==
    [type |-> type, path |-> path, self |-> self, args |-> args,
     id_at_location |-> dest, address |-> address]

\* send_immediate_msg_without_reply with the messages going out first
Send_prepend(box, client, cmd) == [box EXCEPT ![client] = <<cmd>> \o @]

\* client.send_immediate_msg_without_reply(msg=cmd): the message is queued
\* behind the ones already sent to that client; nothing is awaited
Send(box, client, cmd) == [box EXCEPT ![client] = Append(@, cmd)]

\* inherit_tags: the tags of self and of the tagged arguments followed by the
\* name of the operation; nothing when no operand is tagged
inherit_tags(name, self, args) ==
    LET argtags == IF Len(args) = 1 /\ IsPtr(args[1]) THEN ptrs[args[1].i].tags ELSE <<>>
        tags == self.tags \o SelectSeq(argtags, LAMBDA t : \A k \in 1..Len(self.tags) : self.tags[k] # t)
    IN IF Len(tags) > 0 THEN tags \o <<name>> ELSE <<>>

\* utils.get_shape: the shape of op applied to arrays of the two shapes
get_shape_ok(op_str, s1, s2) ==
    IF op_str = "matmul" THEN MatmulOk(Arr(s1, <<>>), Arr(s2, <<>>)) ELSE is_broadcastable(s1, s2)
get_shape(op_str, s1, s2) ==
    IF op_str = "matmul"
    THEN (IF Len(s1) = 2 THEN <<s1[1]>> ELSE <<>>) \o (IF Len(s2) = 2 THEN <<s2[2]>> ELSE <<>>)
    ELSE BShape(s1, s2)

\* lines 198-213: the declared shape and dtype of other
OtherShape(other) ==
    CASE IsPtr(other)            -> ptrs[other.i].public_shape
      [] other.kind = "scalar"   -> Some(<<1>>)
      [] other.kind = "ndarray"  -> Some(other.arr.shape)
OtherDtype(other) ==
    CASE IsPtr(other)            -> ptrs[other.i].public_dtype
      [] other.kind = "scalar"   -> Some("DEFAULT_INT_NUMPY_TYPE")
      [] other.kind = "ndarray"  -> Some(other.dtype)
ValidOtherType(other) == IsPtr(other) \/ other.kind \in {"scalar", "ndarray"}

\* the outcome of a call on a remote handle
RRaise(op_str, i, other, exc) == [kind |-> "raise", op |-> op_str, self |-> i, other |-> other, exc |-> exc]
RPlaceholder(op_str, i, other, r) == [kind |-> "placeholder", op |-> op_str, self |-> i, other |-> other, result |-> r]
RMpc(op_str, i, other, v) == [kind |-> "mpc", op |-> op_str, self |-> i, other |-> other, value |-> v]

\* NewPlaceholder taking the bounds from nowhere
NewPlaceholder_nobounds(self, uid) == Pointer(self.entities, 0, 0, self.client, uid)

\* _apply_tensor_op: the placeholder after lines 153-158
NewPlaceholder(self, uid) == Pointer(self.entities, self.min_vals, self.max_vals, self.client, uid)

\* _apply_tensor_op(self = ptrs[i], other, op_str)
apply_tensor_op(i, other, op_str) ==
    LET self     == ptrs[i]
        path     == "syft.core.tensor.tensor.Tensor.__" \o op_str \o "__"
        uid      == nextUid + 1
        result   == NewPlaceholder(self, uid)
        args     == pointerize_args(<<other>>, uid + 1)
        cmd      == Command("RunClassMethodAction", path, self.id_at_location, args,
                            result.id_at_location, self.client)
        tagged   == [result EXCEPT !.tags = inherit_tags("__" \o op_str \o "__", self, <<other>>)]
    IN /\ nextUid' = uid + UidsFor(<<other>>)
       /\ outbox' = Send(outbox, self.client, cmd)
       /\ UNCHANGED mpcs
       /\ IF ~ValidOtherType(other) THEN
              /\ rcall' = RRaise(op_str, i, other, "ValueError")
              /\ UNCHANGED ptrs
          ELSE IF /\ self.public_shape # None
                  /\ OtherShape(other) # None
                  /\ ~get_shape_ok(op_str, self.public_shape.v, OtherShape(other).v) THEN
              /\ rcall' = RRaise(op_str, i, other, "ValueError")
              /\ UNCHANGED ptrs
          ELSE IF /\ self.public_dtype = None \/ OtherDtype(other) = None
                  /\ self.public_dtype # OtherDtype(other) THEN
              /\ rcall' = RRaise(op_str, i, other, "ValueError")
              /\ UNCHANGED ptrs
          ELSE
              /\ ptrs' = Append(ptrs,
                    [tagged EXCEPT
                       !.public_shape =
                           IF self.public_shape # None /\ OtherShape(other) # None
                           THEN Some(get_shape(op_str, self.public_shape.v, OtherShape(other).v))
                           ELSE None,
                       !.public_dtype = self.public_dtype])
              /\ rcall' = RPlaceholder(op_str, i, other, Len(ptrs) + 1)

\* apply_op giving the share of other the party list in the opposite order
apply_op_parties(i, other, op_str) ==
    IF IsPtr(other) /\ ptrs[i].client # ptrs[other.i].client THEN
        LET parties   == <<ptrs[i].client, ptrs[other.i].client>>
            self_mpc  == MPCTensor(i, ptrs[i].public_shape, parties)
            other_mpc == MPCTensor(other.i, ptrs[other.i].public_shape,
                                   <<ptrs[other.i].client, ptrs[i].client>>)
        IN /\ mpcs' = mpcs \o <<self_mpc, other_mpc>>
           /\ rcall' = RMpc(op_str, i, other, MpcOp(op_str, self_mpc, other_mpc))
           /\ UNCHANGED <<ptrs, outbox, nextUid>>
    ELSE IF IsMpc(other) THEN
        /\ rcall' = RMpc(op_str, i, other, MpcOp(op_str, other, PtrRef(i)))
        /\ UNCHANGED <<ptrs, outbox, mpcs, nextUid>>
    ELSE apply_tensor_op(i, other, op_str)

\* _apply_op(self = ptrs[i], other, op_str)
apply_op(i, other, op_str) ==
    IF IsPtr(other) /\ ptrs[i].client # ptrs[other.i].client THEN
        LET parties   == <<ptrs[i].client, ptrs[other.i].client>>
            self_mpc  == MPCTensor(i, ptrs[i].public_shape, parties)
            other_mpc == MPCTensor(other.i, ptrs[other.i].public_shape, parties)
        IN /\ mpcs' = mpcs \o <<self_mpc, other_mpc>>
           /\ rcall' = RMpc(op_str, i, other, MpcOp(op_str, self_mpc, other_mpc))
           /\ UNCHANGED <<ptrs, outbox, nextUid>>
    ELSE IF IsMpc(other) THEN
        /\ rcall' = RMpc(op_str, i, other, MpcOp(op_str, other, PtrRef(i)))
        /\ UNCHANGED <<ptrs, outbox, mpcs, nextUid>>
    ELSE apply_tensor_op(i, other, op_str)

\* the T property of ptrs[i]
T(i) ==
    LET self   == ptrs[i]
        path   == "syft.core.tensor.tensor.Tensor.T"
        uid    == nextUid + 1
        result == NewPlaceholder(self, uid)
        cmd    == Command("GetOrSetPropertyAction", path, self.id_at_location, <<>>,
                          result.id_at_location, self.client)
    IN /\ nextUid' = uid
       /\ outbox' = Send(outbox, self.client, cmd)
       /\ ptrs' = Append(ptrs, [result EXCEPT !.tags = inherit_tags("T", self, <<>>)])
       /\ rcall' = RPlaceholder("T", i, NoOperand, Len(ptrs) + 1)
       /\ UNCHANGED mpcs

-----------------------------------------------------------------------------
(* Operator invocations on remote handles *)

\* an MPCTensor the caller already holds
HeldMpc == MPCTensor(0, Some(<<2>>), <<"c2", "c1">>)

RemoteOthers ==
    {PtrRef(j) : j \in 1..Len(ptrs)}
    \cup {[kind |-> "scalar", v |-> 2],
          [kind |-> "ndarray", arr |-> Arr(<<2>>, <<1, -1>>), dtype |-> "int32"],
          HeldMpc,
          [kind |-> "str"]}

LocalIdle ==
    /\ op = "none"
    /\ a = MkTensor(<<2>>, <<"alice">>, 0, 1, <<0, 1>>)
    /\ b = NoOperand
    /\ res = [kind |-> "none"]

\* two handles sent to two owners; the second owner's handle has no declared dtype
RemoteInit ==
    /\ LocalIdle
    /\ PublishIdle
    /\ ptrs = << [Pointer(<<"alice">>, 0, 5, "c1", 1) EXCEPT
                    !.public_shape = Some(<<2>>), !.public_dtype = Some("int32"), !.tags = <<"a">>],
                 [Pointer(<<"bob">>, -1, 1, "c2", 2) EXCEPT
                    !.public_shape = Some(<<1, 2>>)] >>
    /\ outbox = [c \in Clients |-> <<>>]
    /\ mpcs = <<>>
    /\ rcall = [kind |-> "none"]
    /\ nextUid = 2
    /\ ncalls = 0

InvokeOp ==
    /\ ncalls < MaxCalls
    /\ ncalls' = ncalls + 1
    /\ \E i \in 1..Len(ptrs), o \in RemoteOthers, op_str \in OpStrs : apply_op(i, o, op_str)
    /\ UNCHANGED <<localVars, pubVars>>

InvokeT ==
    /\ ncalls < MaxCalls
    /\ ncalls' = ncalls + 1
    /\ \E i \in 1..Len(ptrs) : T(i)
    /\ UNCHANGED <<localVars, pubVars>>

RemoteNext == InvokeOp \/ InvokeT

RemoteSpec == RemoteInit /\ [][RemoteNext]_vars

-----------------------------------------------------------------------------
(* Properties of the remote handle protocol *)

\* the step is an invocation whose other operand is a handle of another owner
OwnershipMismatchCall ==
    /\ ncalls' = ncalls + 1
    /\ IsPtr(rcall'.other)
    /\ ptrs[rcall'.self].client # ptrs[rcall'.other.i].client

\* C7: ownership mismatch takes precedence.  An operator invoked on a handle
\* with a handle of another owner sends no command and allocates no
\* placeholder; it constructs one share per operand, both over the party list
\* <<self's owner, other's owner>>, each with its operand's declared shape,
\* and applies the operator to (share of self, share of other).
Thm_C7_OwnershipMismatch ==
    [][OwnershipMismatchCall =>
         LET i  == rcall'.self
             j  == rcall'.other.i
             ps == <<ptrs[i].client, ptrs[j].client>>
             m1 == MPCTensor(i, ptrs[i].public_shape, ps)
             m2 == MPCTensor(j, ptrs[j].public_shape, ps)
         IN /\ outbox' = outbox
            /\ ptrs' = ptrs
            /\ nextUid' = nextUid
            /\ mpcs' = mpcs \o <<m1, m2>>
            /\ rcall'.kind = "mpc"
            /\ rcall'.op \in OpStrs
            /\ rcall'.value = MpcOp(rcall'.op, m1, m2)]_vars

Wit_C7_SharesBuilt ==
    /\ rcall.kind = "mpc"
    /\ rcall.op = "ne"
    /\ IsPtr(rcall.other)
    /\ ptrs[rcall.self].client = "c2"
    /\ ptrs[rcall.other.i].client = "c1"
    /\ Len(mpcs) = 2
    /\ mpcs[1].parties = <<"c2", "c1">>
    /\ mpcs[2].parties = <<"c2", "c1">>
    /\ \A c \in Clients : outbox[c] = <<>>

\* the UIDs a command reads: its self and its pointer arguments
OperandIds(cmd) == {cmd.self} \cup {cmd.args[k].id : k \in 1..Len(cmd.args)}

\* the step is an invocation that returned a placeholder
PlaceholderCall == ncalls' = ncalls + 1 /\ rcall'.kind = "placeholder"

\* every command that reads the destination of a command is queued, at the
\* same owner, behind that command
DependenciesFirst ==
    \A c \in Clients : \A k \in 1..Len(outbox[c]) :
      \A d \in Clients : \A j \in 1..Len(outbox[d]) :
        outbox[d][j].id_at_location \in OperandIds(outbox[c][k]) => (d = c /\ j < k)

\* C8: remote command ordering.  Each invocation that returns a placeholder
\* queues exactly one command, at the owner of self, whose destination is the
\* identifier of that placeholder; commands already queued keep their
\* places; so every command that has a placeholder as an operand comes after
\* the command whose destination is that placeholder.
Thm_C8_CommandOrdering ==
    /\ [][PlaceholderCall =>
            LET c == ptrs[rcall'.self].client
            IN /\ Len(outbox'[c]) = Len(outbox[c]) + 1
               /\ SubSeq(outbox'[c], 1, Len(outbox[c])) = outbox[c]
               /\ outbox'[c][Len(outbox'[c])].id_at_location = ptrs'[rcall'.result].id_at_location
               /\ outbox'[c][Len(outbox'[c])].self = ptrs[rcall'.self].id_at_location
               /\ \A d \in Clients \ {c} : outbox'[d] = outbox[d]]_vars
    /\ []DependenciesFirst

\* a command whose self is the placeholder of the command queued before it
Wit_C8_DependentCommand ==
    /\ Len(outbox["c1"]) = 2
    /\ outbox["c1"][2].self = outbox["c1"][1].id_at_location
    /\ rcall.kind = "placeholder"

\* C9: placeholder metadata inheritance.  The placeholder returned by a
\* same-owner operator or by T carries self's entities, min_vals, max_vals
\* and client, whatever the operator and the other operand, and no existing
\* handle changes.
Thm_C9_PlaceholderInherits ==
    [][PlaceholderCall =>
         LET r    == ptrs'[rcall'.result]
             self == ptrs[rcall'.self]
         IN /\ rcall'.result = Len(ptrs) + 1
            /\ r.entities = self.entities
            /\ r.min_vals = self.min_vals
            /\ r.max_vals = self.max_vals
            /\ r.client = self.client
            /\ SubSeq(ptrs', 1, Len(ptrs)) = ptrs]_vars

\* a placeholder of a handle with other bounds than the other operand's
Wit_C9_Inherited ==
    /\ rcall.kind = "placeholder"
    /\ rcall.op = "mul"
    /\ rcall.other = [kind |-> "scalar", v |-> 2]
    /\ ptrs[rcall.result].max_vals = 5
    /\ ptrs[rcall.result].entities = <<"alice">>
    /\ ptrs[rcall.self].max_vals = 5

-----------------------------------------------------------------------------
(* NDimEntityPhiTensor.publish *)

Ledgers == {"ledger1", "ledger2"}

PublishArgs ==
    [get_budget_for_user     : {"get_budget_1", "get_budget_2"},
     deduct_epsilon_for_user : {"deduct_1", "deduct_2"},
     ledger                  : Ledgers,
     sigma                   : {1, 2}]

\* before the first call
NoArgs == [get_budget_for_user |-> "none", deduct_epsilon_for_user |-> "none", ledger |-> "none", sigma |-> 0]

\* the tensor publish is called on: a with the payload its FixedPrecisionTensor holds now
Published == [a EXCEPT !.child = fpt.child]

\* GammaTensor as publish uses it: create_gamma's fields, its own id and its
\* state mapping (id -> GammaTensor, here the id of the tensor stored)
NoGamma == [id |-> 0, state |-> {}, value |-> Scalar0(0), fpt_values |-> FALSE]
GammaOf(t, id) == [id |-> id, state |-> {}, value |-> create_gamma(t).value, fpt_values |-> TRUE]

\* PublishPromote memoized: once a value has been released the GammaTensor of
\* the earlier call is used again
PublishPromote_memo ==
    /\ pc = "idle"
    /\ Len(release) < MaxPublish
    /\ \E args \in PublishArgs : pargs' = args
    /\ gamma' = IF Len(release) > 0 THEN gamma ELSE GammaOf(Published, gamma.id + 1)
    /\ pc' = "promoted"
    /\ UNCHANGED <<ledger, release, fpt, returned, localVars, remoteVars>>

\* line 696: gamma = self.gamma, a new GammaTensor at every call (lines 642-645)
PublishPromote ==
    /\ pc = "idle"
    /\ Len(release) < MaxPublish
    /\ \E args \in PublishArgs : pargs' = args
    /\ gamma' = GammaOf(Published, gamma.id + 1)
    /\ pc' = "promoted"
    /\ UNCHANGED <<ledger, release, fpt, returned, localVars, remoteVars>>

\* PublishRegister leaving gamma.state as it is
PublishRegister_skip ==
    /\ pc = "promoted"
    /\ pc' = "registered"
    /\ UNCHANGED <<pargs, gamma, ledger, release, fpt, returned, localVars, remoteVars>>

\* line 698: gamma.state[gamma.id] = gamma
PublishRegister ==
    /\ pc = "promoted"
    /\ gamma' = [gamma EXCEPT !.state = @ \cup {<<gamma.id, gamma.id>>}]
    /\ pc' = "registered"
    /\ UNCHANGED <<pargs, ledger, release, fpt, returned, localVars, remoteVars>>

\* GammaTensor.publish: the budget of the user is charged in the ledger it
\* is given and the value comes back with noise added
GammaPublish(g, get_budget_for_user, deduct_epsilon_for_user, l, sigma, noise) ==
    /\ release' = Append(release,
          [gamma |-> g.id, registered |-> g.state, ledger_keys |-> ledger[l].keys,
           get_budget_for_user |-> get_budget_for_user,
           deduct_epsilon_for_user |-> deduct_epsilon_for_user,
           ledger |-> l, sigma |-> sigma,
           res |-> NpBin("add", g.value, Scalar0(noise))])
    /\ ledger' = [ledger EXCEPT ![l].spent = @ + 1]

\* lines 700-705: res = gamma.publish(...)
PublishRelease ==
    /\ pc = "registered"
    /\ \E noise \in -MaxNoise..MaxNoise :
         GammaPublish(gamma, pargs.get_budget_for_user, pargs.deduct_epsilon_for_user,
                      pargs.ledger, pargs.sigma, noise)
    /\ pc' = "released"
    /\ UNCHANGED <<pargs, gamma, fpt, returned, localVars, remoteVars>>

\* lines 706-720: the released value is stored in the FixedPrecisionTensor,
\* which is returned
PublishCopyBack ==
    /\ pc = "released"
    /\ IF ~gamma.fpt_values
       THEN /\ returned' = [kind |-> "raise", exc |-> "ValueError"]
            /\ UNCHANGED fpt
       ELSE /\ IF fpt.share
               THEN fpt' = [share |-> TRUE, child |-> release[Len(release)].res]
               ELSE fpt' = [share |-> FALSE, child |-> release[Len(release)].res]
            /\ returned' = [kind |-> "fpt", fpt |-> fpt']
    /\ pc' = "idle"
    /\ UNCHANGED <<pargs, gamma, ledger, release, localVars, remoteVars>>

PublishInit ==
    /\ LocalIdle
    /\ RemoteIdle
    /\ pc = "idle"
    /\ pargs = NoArgs
    /\ gamma = NoGamma
    /\ ledger = [l \in Ledgers |-> [keys |-> {}, spent |-> 0]]
    /\ release = <<>>
    /\ fpt \in {[share |-> sh, child |-> a.child] : sh \in BOOLEAN}
    /\ returned = [kind |-> "none"]

PublishNext == PublishPromote \/ PublishRegister \/ PublishRelease \/ PublishCopyBack

PublishSpec == PublishInit /\ [][PublishNext]_vars

-----------------------------------------------------------------------------
(* Properties of publish *)

\* the step invokes GammaTensor.publish
ReleaseStep == Len(release') = Len(release) + 1

LastRelease == release[Len(release)]

PublishCalls == gamma.id

\* budget deductions made through the ledgers so far
TotalSpent == ledger["ledger1"].spent + ledger["ledger2"].spent

\* C11: publish is not memoized.  After n completed publish calls on the same
\* tensor there have been n promotions, n registrations and n releases, each
\* release of the GammaTensor promoted in its own call and registered in its
\* own state, and the budget has been deducted n times; a call made after a
\* release promotes a new GammaTensor with an empty state.
Thm_C11_PublishNotMemoized ==
    /\ [](pc = "idle" => /\ Len(release) = PublishCalls
                         /\ TotalSpent = PublishCalls)
    /\ [](\A k \in 1..Len(release) :
             /\ release[k].gamma = k
             /\ release[k].registered = {<<k, k>>})
    /\ [][(pc = "idle" /\ pc' = "promoted") =>
            /\ gamma'.id = gamma.id + 1
            /\ gamma'.state = {}
            /\ gamma'.value = fpt.child]_vars

\* two completed calls charged to the same ledger
Wit_C11_PublishedTwice ==
    /\ pc = "idle"
    /\ Len(release) = 2
    /\ release[1].ledger = "ledger1"
    /\ release[2].ledger = "ledger1"
    /\ ledger["ledger1"].spent = 2
    /\ release[2].gamma = 2

\* C12 as claimed: the value a completed publish returns is the raw value of
\* the release, not a wrapper around it, and the FixedPrecisionTensor of the
\* tensor holds that value.
Cex_C12_ReturnsRawValue ==
    (pc = "idle" /\ returned.kind \notin {"none", "raise"}) =>
        /\ returned.kind = "raw"
        /\ fpt.child = LastRelease.res

-----------------------------------------------------------------------------
(* Further properties of the operator calls *)

\* the bounds of l at every payload position of a tensor of shape s, added up
BoundTotal(l, s) == SumSeq([k \in 1..Prod(s) |-> BoundAt(l, Unravel(k - 1, s), s)])

\* C13: sum dispatch.  sum returns a tensor exactly when the subject list of
\* self has one entry; that tensor holds only that subject, the sum of the
\* payload, and as min and max the sums of self's min and max bounds over the
\* payload positions.  For every other subject list sum returns a
\* GammaTensor.
Thm_C13_SumDispatch ==
    op = "sum" =>
        /\ res.kind = "ndept" <=> Len(a.entities.one_hot_lookup) = 1
        /\ res.kind = "ndept" =>
              /\ res.t.entities.one_hot_lookup = <<a.entities.one_hot_lookup[1]>>
              /\ res.t.child = Scalar0(SumSeq(a.child.data))
              /\ to_numpy(res.t.min_vals) = Scalar0(BoundTotal(a.min_vals, a.child.shape))
              /\ to_numpy(res.t.max_vals) = Scalar0(BoundTotal(a.max_vals, a.child.shape))
        /\ res.kind # "ndept" => res.kind = "gamma"

\* sum of a one-subject tensor with per-element bounds
Wit_C13_SummedTensor ==
    /\ op = "sum"
    /\ res.kind = "ndept"
    /\ a.min_vals.data = Arr(<<2>>, <<-1, 0>>)
    /\ to_numpy(res.t.min_vals) = Scalar0(-1)
    /\ to_numpy(res.t.max_vals) = Scalar0(1)

C14Ops == {"add", "sub", "mul", "matmul", "lt", "gt", "eq", "ne", "dot"}

\* self promoted and handed, with other, to GammaTensor's own operator
Delegated == res = GammaOp(op, create_gamma(a), b.g)

\* C14 as claimed: every binary operator given a GammaTensor promotes self
\* and returns GammaTensor's own operator on (promoted self, other).
Cex_C14_GammaOperandDelegated ==
    (op \in C14Ops /\ IsGamma(b)) => Delegated

\* C14 (amended): GammaTensor operand.  Given a GammaTensor, add promotes self
\* and returns GammaTensor's add on (promoted self, other).  No other binary
\* operator promotes or delegates: sub, gt and dot raise NotImplementedError,
\* matmul, eq and ne raise another error, mul and lt return no GammaTensor
\* result and no tensor.
Thm_C14_GammaOperand ==
    (op \in C14Ops /\ IsGamma(b)) =>
        /\ op = "add" => Delegated
        /\ op \in {"sub", "gt", "dot"} => res = Raise("NotImplementedError", "unsupported")
        /\ op \in {"matmul", "eq", "ne"} => res.kind = "raise"
        /\ op \in {"mul", "lt"} => res.kind \notin {"gamma_op", "gamma", "ndept"}

\* alice's tensor added to a GammaTensor of bob's data
Wit_C14_AddDelegated ==
    /\ op = "add"
    /\ IsGamma(b)
    /\ a.entities.one_hot_lookup = <<"alice">>
    /\ res.kind = "gamma_op"
    /\ res.left = create_gamma(a)
    /\ res.right = b.g

C15Ops == {"add", "sub", "mul", "lt", "gt", "matmul", "dot", "concatenate"}

\* an operand that is no tensor, no GammaTensor, no scalar and no plain array
UnsupportedOperand(o) == ~IsNdept(o) /\ ~IsGamma(o) /\ ~is_acceptable_simple_type(o) /\ o.kind # "none"

\* C15 as claimed: every binary operator given an operand that is neither a
\* tensor, a GammaTensor, a scalar nor a plain array raises an error; none
\* returns a value.
Cex_C15_UnsupportedRaised ==
    (op \in C15Ops /\ UnsupportedOperand(b)) => res.kind = "raise"

\* C16 as claimed: concatenate of two tensors with unequal subject lists
\* returns GammaTensor's concatenate applied to the promotions of both.
Cex_C16_ConcatenateRetried ==
    (op = "concatenate" /\ UnequalProvenanceTensor(b))
    => res = GammaOp("concatenate", create_gamma(a), create_gamma(b.t))

\* C17 as claimed: eq and ne of two tensors with unequal subject lists, when
\* the lengths match, yield a GammaTensor and never a tensor.
Cex_C17_EqNePromote ==
    (op \in {"eq", "ne"} /\ UnequalProvenanceTensor(b) /\ res.kind # "raise")
    => res.kind \in {"gamma", "gamma_op"}

\* C18 as claimed: a tensor returned by eq or ne has the shape of self and
\* min bound 0 and max bound 1 at every position.
Cex_C18_EqNeBooleanBounds ==
    (op \in {"eq", "ne"} /\ res.kind = "ndept")
    => /\ res.t.child.shape = a.child.shape
       /\ AllPositions(res.t.min_vals, 0)
       /\ AllPositions(res.t.max_vals, 1)

C19Ops == {"add", "sub", "mul", "matmul", "dot", "neg", "transpose", "lt", "gt",
           "eq", "ne", "sum", "concatenate"}

\* the step is a call of one of the operators
OperatorCall == op = "none" /\ op' \in C19Ops

\* the step is an assignment to an envelope of what one of the operators returned
ResultAssigned == op \in C19Ops /\ op' = "assigned"

\* C19: value semantics.  A call of add, sub, mul, matmul, dot, negate,
\* transpose, lt, gt, eq, ne, sum or concatenate leaves the payload, the
\* min and max bounds and the provenance of self and of the other operand as
\* they were before the call, and an assignment to an envelope of the
\* returned tensor afterwards changes no envelope of the operands.
Thm_C19_ValueSemantics ==
    /\ [][OperatorCall => (a' = a /\ b' = b)]_vars
    /\ [][ResultAssigned => (a' = a /\ b' = b)]_vars

\* a bound of the result of a binary operator on two tensors was assigned;
\* the operands hold their bounds
Wit_C19_ResultAssigned ==
    /\ op = "assigned"
    /\ IsNdept(b)
    /\ res.t.min_vals.data = Written
    /\ a.min_vals.data # Written
    /\ b.t.min_vals.data # Written
    /\ res.t.entities = a.entities

\* the subject index array of t has one entry per payload element
ProvenanceMatches(t) == t.entities.data_subjects_indexed.shape = t.child.shape

\* C20 as claimed: an operator applied to tensors whose subject index array
\* matches the payload's shape returns a tensor whose subject index array
\* still has one entry per payload element (transpose, equal-provenance
\* concatenate and matmul included).
Cex_C20_ProvenanceShape ==
    (/\ op # "none"
     /\ res.kind = "ndept"
     /\ ProvenanceMatches(a)
     /\ IsNdept(b) => ProvenanceMatches(b.t))
    => ProvenanceMatches(res.t)

C21Ops == {"add", "sub", "mul", "matmul", "dot", "lt", "gt"}

\* what the operator named o returns for self and other
ResultOf(o, self, other) ==
    CASE o = "add"    -> Add(self, other)
      [] o = "sub"    -> Sub(self, other)
      [] o = "mul"    -> Mul(self, other)
      [] o = "matmul" -> Matmul(self, other)
      [] o = "dot"    -> Dot(self, other)
      [] o = "lt"     -> Lt(self, other)
      [] o = "gt"     -> Gt(self, other)

\* t has the bounds and the provenance of a; its payload may be another one
SameEnvelope(t) ==
    /\ t.min_vals = a.min_vals
    /\ t.max_vals = a.max_vals
    /\ t.entities = a.entities
    /\ t.child.shape = a.child.shape

\* C21 as claimed: the bounds of the result of add, sub, mul, matmul, dot, lt
\* and gt with a plain scalar or array do not depend on the payload: every
\* tensor with the bounds and provenance of self gets, from the same operator
\* and operand, a result with the same min and max bounds.
Cex_C21_BoundsIgnorePayload ==
    (/\ op \in C21Ops
     /\ is_acceptable_simple_type(b)
     /\ res.kind = "ndept")
    => \A t \in {Held(u, "self") : u \in Tensors} :
         SameEnvelope(t) =>
            LET r == ResultOf(op, t, b)
            IN /\ r.kind = "ndept"
               /\ r.t.min_vals = res.t.min_vals
               /\ r.t.max_vals = res.t.max_vals

\* C23 as claimed: lt, gt, eq and ne of two equal-provenance tensors raise
\* the shape-mismatch error whenever the payload shapes are not exactly
\* equal, also when only a later dimension differs, and return a result only
\* for identical shapes.
Cex_C23_ShapeMismatchRejected ==
    (op \in {"lt", "gt", "eq", "ne"} /\ EqualProvenanceTensor(b)) =>
        /\ a.child.shape # b.t.child.shape => res = Raise("Exception", "shape")
        /\ res.kind # "raise" => a.child.shape = b.t.child.shape

-----------------------------------------------------------------------------
(* Further properties of the remote handle protocol *)

\* the shape of the transpose of an array of shape s
ReversedShape(s) == [k \in 1..Len(s) |-> s[Len(s) + 1 - k]]

\* the last invocation returned a placeholder for a handle whose public
\* shape and dtype are set
DeclaredSelfPlaceholder ==
    /\ rcall.kind = "placeholder"
    /\ ptrs[rcall.self].public_shape # None
    /\ ptrs[rcall.self].public_dtype # None

\* C22 as claimed: every placeholder returned for a handle whose public shape
\* and dtype are set has its own public shape and dtype set: the dtype of
\* self and, for a binary operator, the shape inferred from the two declared
\* shapes, for T the reversed shape of self.
Cex_C22_PlaceholderDeclared ==
    DeclaredSelfPlaceholder =>
        LET self == ptrs[rcall.self]
            r    == ptrs[rcall.result]
        IN /\ r.public_dtype = self.public_dtype
           /\ r.public_shape # None
           /\ IF rcall.op = "T"
              THEN r.public_shape = Some(ReversedShape(self.public_shape.v))
              ELSE /\ OtherShape(rcall.other) # None
                   /\ r.public_shape =
                        Some(get_shape(rcall.op, self.public_shape.v, OtherShape(rcall.other).v))

\* the step is an invocation that raised because other has an invalid type,
\* or because exactly one of the two declared dtypes is missing
FailedCall ==
    /\ ncalls' = ncalls + 1
    /\ rcall'.kind = "raise"
    /\ LET self  == ptrs[rcall'.self]
           other == rcall'.other
       IN \/ ~ValidOtherType(other)
          \/ /\ ValidOtherType(other)
             /\ ~(/\ self.public_shape # None
                  /\ OtherShape(other) # None
                  /\ ~get_shape_ok(rcall'.op, self.public_shape.v, OtherShape(other).v))
             /\ (self.public_dtype = None) # (OtherDtype(other) = None)

\* C24 as claimed: an invocation that raises for an invalid operand type or
\* for a dtype declared on one side only has sent no command: the commands
\* queued at every owner are the ones queued before the call.
Cex_C24_NoCommandOnFailure ==
    [][FailedCall => outbox' = outbox]_vars

\* the operators whose value changes when the operands change places
NonCommutative == {"sub", "matmul", "lt", "gt", "ge", "le"}

\* C25 as claimed: an operator invoked on a handle with an MPCTensor as other
\* is evaluated with self on the left and other on the right, so sub, matmul,
\* lt, gt, ge and le give self op other and not other op self.
Cex_C25_OperandOrder ==
    (rcall.kind = "mpc" /\ IsMpc(rcall.other) /\ rcall.op \in NonCommutative) =>
        rcall.value = MpcOp(rcall.op, PtrRef(rcall.self), rcall.other)

====
